---- MODULE Spec2Model ----
(***************************************************************************)
(* Model of the simple_backtest utilities (utils/misc.py) and of the two   *)
(* tools built on them (tools/data_tools.py, tools/backtest_tools.py).     *)
(*                                                                         *)
(* Numbers.  A float is modelled by an extended rational <<n, d>>:         *)
(*   d > 0   the finite value n/d, in lowest terms;                        *)
(*   d = 0   n = 0 is NaN, n = 1 is +inf, n = -1 is -inf.                  *)
(* Arithmetic is exact; NaN and inf follow IEEE-754 (NaN propagates, every *)
(* ordered comparison with NaN is false, NaN != x is true).  Quantities    *)
(* that need a root or a fractional power (standard deviation, annualized  *)
(* return) are carried as exact terms: a root by its radicand, a power by  *)
(* its base and exponent.                                                  *)
(*                                                                         *)
(* Tables.  A pandas DataFrame is [columns, index, data]: the column       *)
(* labels, the Date index and one row of values per index entry, aligned   *)
(* with columns.  A Series is [index, values].  DataFrames live in a heap  *)
(* of objects and are held by reference, as in Python.                     *)
(***************************************************************************)
EXTENDS Integers, Sequences, FiniteSets, TLC

VARIABLES tool, pc, csv, heap, raw_price_data, price_data, tickers, portfolio,
          warnings, portfolio_returns, performance_stats, error

vars == <<tool, pc, csv, heap, raw_price_data, price_data, tickers, portfolio,
          warnings, portfolio_returns, performance_stats, error>>

-----------------------------------------------------------------------------
(* Bounds of the model and the sample values the inputs are drawn from.    *)

\* Rows of a file or table.
MaxRows == 2

\* Entries of a return series handed to calculate_performance_metrics.
MaxPeriods == 3

\* Factors the weights are scaled by.
MaxScale == 2

\* Dates of the rows of a file: two suffice for rows out of order and for
\* rows that share a date.
Dates == {1, 2}

PriceValues == {1, 2}

\* Weights of a map handed to calculate_portfolio_returns directly.
WeightValues == {-1, 1, 2}

\* Weights of a portfolio handed to backtest_portfolio.
PortfolioWeights == {-1, 2}

TableColumns == <<"AAA", "BBB">>

AssetIds == {"AAA", "BBB", "ZZZ"}

\* pct_change's default fill_method: "pad" before pandas 3, none from pandas 3
\* on.  The installed pandas decides; the model leaves the choice open.
FillMethods == {"pad", "none"}

-----------------------------------------------------------------------------
(* Extended rationals.                                                     *)

Abs(n) == IF n < 0 THEN -n ELSE n

Sgn(n) == IF n < 0 THEN -1 ELSE IF n > 0 THEN 1 ELSE 0

RECURSIVE GCD(_, _)
GCD(a, b) == IF b = 0 THEN a ELSE GCD(b, a % b)

NaN == <<0, 0>>

Rat(n, d) ==
    IF d = 0 THEN <<Sgn(n), 0>>
    ELSE LET g == GCD(Abs(n), Abs(d))
             s == Sgn(d)
         IN  <<(s * n) \div g, (s * d) \div g>>

Zero == <<0, 1>>

One == <<1, 1>>

IsNaN(x) == x[2] = 0 /\ x[1] = 0

IsFinite(x) == x[2] # 0

RNeg(x) == <<-x[1], x[2]>>

RAdd(x, y) ==
    IF IsNaN(x) \/ IsNaN(y) THEN NaN
    ELSE IF x[2] = 0 /\ y[2] = 0 THEN (IF x[1] = y[1] THEN x ELSE NaN)
    ELSE IF x[2] = 0 THEN x
    ELSE IF y[2] = 0 THEN y
    ELSE LET g == GCD(x[2], y[2])
             l == (x[2] \div g) * y[2]
         IN  Rat(x[1] * (l \div x[2]) + y[1] * (l \div y[2]), l)

RSub(x, y) == RAdd(x, RNeg(y))

RMul(x, y) ==
    IF IsNaN(x) \/ IsNaN(y) THEN NaN
    ELSE IF x[2] = 0 \/ y[2] = 0 THEN Rat(Sgn(x[1]) * Sgn(y[1]), 0)
    ELSE LET g1 == GCD(Abs(x[1]), y[2])
             g2 == GCD(Abs(y[1]), x[2])
             a  == IF g1 = 0 THEN 1 ELSE g1
             b  == IF g2 = 0 THEN 1 ELSE g2
         IN  Rat((x[1] \div a) * (y[1] \div b), (x[2] \div b) * (y[2] \div a))

\* x / y as numpy divides floats: x/0 is +-inf or NaN, never an exception.
RDiv(x, y) ==
    IF IsNaN(x) \/ IsNaN(y) THEN NaN
    ELSE IF y[2] = 0 THEN (IF x[2] = 0 THEN NaN ELSE Zero)
    ELSE IF y[1] = 0 THEN Rat(Sgn(x[1]), 0)
    ELSE RMul(x, Rat(y[2], y[1]))

\* x < y; false when either side is NaN.
RLt(x, y) ==
    IF IsNaN(x) \/ IsNaN(y) THEN FALSE
    ELSE IF x[2] = 0 \/ y[2] = 0
         THEN (IF x[2] = 0 /\ y[2] = 0 THEN x[1] < y[1]
               ELSE IF x[2] = 0 THEN x[1] < 0 ELSE y[1] > 0)
    ELSE LET g == GCD(x[2], y[2])
         IN  x[1] * (y[2] \div g) < y[1] * (x[2] \div g)

RLe(x, y) == RLt(x, y) \/ (~IsNaN(x) /\ x = y)

RAbs(x) == <<Abs(x[1]), x[2]>>

\* Python's `x != 0` on a float: true for NaN.
RNonZero(x) == x # Zero

RECURSIVE RSum(_)
RSum(s) == IF s = <<>> THEN Zero ELSE RAdd(RSum(SubSeq(s, 1, Len(s) - 1)), s[Len(s)])

RECURSIVE RProd(_)
RProd(s) == IF s = <<>> THEN One ELSE RMul(RProd(SubSeq(s, 1, Len(s) - 1)), s[Len(s)])

RECURSIVE SeqFilter(_, _)
SeqFilter(Test(_), s) ==
    IF s = <<>> THEN <<>>
    ELSE LET rest == SeqFilter(Test, SubSeq(s, 1, Len(s) - 1))
         IN  IF Test(s[Len(s)]) THEN Append(rest, s[Len(s)]) ELSE rest

Range(s) == {s[i] : i \in 1 .. Len(s)}

IndexOf(s, x) == CHOOSE i \in 1 .. Len(s) : s[i] = x

RemoveAt(s, k) == [i \in 1 .. Len(s) - 1 |-> IF i < k THEN s[i] ELSE s[i + 1]]

Perms(n) == {p \in [1 .. n -> 1 .. n] : \A i, j \in 1 .. n : p[i] = p[j] => i = j}

-----------------------------------------------------------------------------
(* DataFrames and Series.                                                  *)

NoFrame == [columns |-> <<>>, index |-> <<>>, data |-> <<>>]

NoSeries == [index |-> <<>>, values |-> <<>>]

NoCsv == [columns |-> <<>>, rows |-> <<>>]

\* df[col]: the values of one column, in row order.
Column(df, col) ==
    LET k == IndexOf(df.columns, col)
    IN  [i \in 1 .. Len(df.data) |-> df.data[i][k]]

\* Rows of df reordered by the permutation p.
Reorder(df, p) ==
    [columns |-> df.columns,
     index   |-> [i \in 1 .. Len(df.index) |-> df.index[p[i]]],
     data    |-> [i \in 1 .. Len(df.data) |-> df.data[p[i]]]]

IsSortedIndex(df) ==
    \A i \in 1 .. Len(df.index) - 1 : df.index[i] <= df.index[i + 1]

\* df.set_index('Date'): the Date column becomes the index and leaves the columns.
SetIndex(file) ==
    LET k == IndexOf(file.columns, "Date")
    IN  [columns |-> RemoveAt(file.columns, k),
         index   |-> [i \in 1 .. Len(file.rows) |-> file.rows[i][k]],
         data    |-> [i \in 1 .. Len(file.rows) |-> RemoveAt(file.rows[i], k)]]

\* df.sort_index(): the default sort is not stable, so rows that share a date
\* may come out in any order; every ordering with ascending dates is possible.
SortIndex(df) ==
    {Reorder(df, p) : p \in {q \in Perms(Len(df.index)) : IsSortedIndex(Reorder(df, q))}}

\* The frames load_price_data can return for a file that has a Date column.
load_price_data(file) == SortIndex(SetIndex(file))

available_tickers(df, tks) == SeqFilter(LAMBDA col : col \in Range(df.columns), tks)

missing_tickers(df, tks) == SeqFilter(LAMBDA col : col \notin Range(df.columns), tks)

\* df[available_tickers]: a new frame with the listed columns, all rows kept.
Subframe(df, cols) ==
    [columns |-> cols,
     index   |-> df.index,
     data    |-> [i \in 1 .. Len(df.data) |->
                    [j \in 1 .. Len(cols) |-> df.data[i][IndexOf(df.columns, cols[j])]]]]

\* Variant: the selection is made in place, on the source object itself.
get_ticker_data_inplace(h, ref, tks) ==
    [heap |-> [h EXCEPT ![ref] = Subframe(h[ref], available_tickers(h[ref], tks))],
     ref  |-> ref]

\* Variant: the copy keeps every column of the source.
get_ticker_data_all(h, ref, tks) ==
    [heap |-> Append(h, h[ref]), ref |-> Len(h) + 1]

\* get_ticker_data's return: df[available_tickers].copy() is a new object; the
\* source object keeps its contents.  Yields the heap after the call and the
\* reference returned.
get_ticker_data(h, ref, tks) ==
    [heap |-> Append(h, Subframe(h[ref], available_tickers(h[ref], tks))),
     ref  |-> Len(h) + 1]

-----------------------------------------------------------------------------
(* calculate_portfolio_returns.                                            *)

AssetOrder == <<"AAA", "BBB", "ZZZ">>

\* list(weights.keys()), in a fixed order (exact sums do not depend on it).
Keys(weights) == SeqFilter(LAMBDA a : a \in DOMAIN weights, AssetOrder)

\* ffill of one column: a missing value takes the last value before it; leading
\* missing values stay missing.
RECURSIVE FFill(_)
FFill(col) ==
    IF col = <<>> THEN <<>>
    ELSE LET init == FFill(SubSeq(col, 1, Len(col) - 1))
             last == col[Len(col)]
         IN  IF IsNaN(last) /\ init # <<>> THEN Append(init, init[Len(init)])
             ELSE Append(init, last)

\* pct_change of one column: v[t]/v[t-1] - 1, the first entry undefined.  Under
\* fill "pad" (the default before pandas 3) the column is forward-filled first.
PctChangeColumn(col, fill) ==
    LET v == IF fill = "pad" THEN FFill(col) ELSE col
    IN  [t \in 1 .. Len(v) |->
            IF t = 1 THEN NaN ELSE RSub(RDiv(v[t], v[t - 1]), One)]

pct_change(df, fill) ==
    LET cols == [j \in 1 .. Len(df.columns) |->
                    PctChangeColumn([t \in 1 .. Len(df.data) |-> df.data[t][j]], fill)]
    IN  [columns |-> df.columns,
         index   |-> df.index,
         data    |-> [i \in 1 .. Len(df.data) |->
                        [j \in 1 .. Len(df.columns) |-> cols[j][i]]]]

RowHasNaN(row) == \E j \in 1 .. Len(row) : IsNaN(row[j])

RECURSIVE KeptRows(_, _)
KeptRows(df, n) ==
    IF n = 0 THEN <<>>
    ELSE IF RowHasNaN(df.data[n]) THEN KeptRows(df, n - 1)
    ELSE Append(KeptRows(df, n - 1), n)

\* dropna(): every row that holds a NaN in any column is removed.
dropna(df) ==
    LET keep == KeptRows(df, Len(df.data))
    IN  [columns |-> df.columns,
         index   |-> [i \in 1 .. Len(keep) |-> df.index[keep[i]]],
         data    |-> [i \in 1 .. Len(keep) |-> df.data[keep[i]]]]

\* returns = price_data.pct_change().dropna()
returns_frame(df, fill) == dropna(pct_change(df, fill))

total_weight(weights) ==
    LET ks == Keys(weights)
    IN  RSum([i \in 1 .. Len(ks) |-> Rat(weights[ks[i]], 1)])

\* Python's weight/total_weight raises ZeroDivisionError on a zero divisor; the
\* comprehension divides once per entry, so an empty map divides nothing.
RaisesZeroDivision(weights) == DOMAIN weights # {} /\ total_weight(weights) = Zero

\* Variant: the weights are divided by their number, not by their sum.
normalized_weights_by_count(weights) ==
    [a \in DOMAIN weights |->
        RDiv(Rat(weights[a], 1), Rat(Cardinality(DOMAIN weights), 1))]

normalized_weights(weights) ==
    LET total == total_weight(weights)
    IN  [a \in DOMAIN weights |-> RDiv(Rat(weights[a], 1), total)]

\* The accumulation loop: 0.0 at every date of returns, plus returns[ticker] *
\* weight for every ticker of nw that is a column of returns.
WeightedSum(returns, nw) ==
    LET used  == SeqFilter(LAMBDA a : a \in Range(returns.columns), Keys(nw))
        terms == [j \in 1 .. Len(used) |->
                    [i \in 1 .. Len(returns.index) |->
                        RMul(Column(returns, used[j])[i], nw[used[j]])]]
    IN  [index  |-> returns.index,
         values |-> [i \in 1 .. Len(returns.index) |->
                       RSum([j \in 1 .. Len(used) |-> terms[j][i]])]]

\* Variant: the weights of assets the table lacks are dropped before normalizing.
calculate_portfolio_returns_renormalized(df, weights, fill) ==
    LET present == [a \in DOMAIN weights \cap Range(df.columns) |-> weights[a]]
    IN  WeightedSum(returns_frame(df, fill), normalized_weights(present))

calculate_portfolio_returns(df, weights, fill) ==
    WeightedSum(returns_frame(df, fill), normalized_weights(weights))

-----------------------------------------------------------------------------
(* calculate_performance_metrics.                                          *)

periods_per_year == 12

\* Sample variance (ddof = 1), the radicand of pandas' Series.std(): NaN for
\* fewer than two values.
Variance(xs) ==
    IF Len(xs) < 2 THEN NaN
    ELSE LET mean == RDiv(RSum(xs), Rat(Len(xs), 1))
             dev  == [i \in 1 .. Len(xs) |-> RSub(xs[i], mean)]
             sq   == [i \in 1 .. Len(xs) |-> RMul(dev[i], dev[i])]
         IN  RDiv(RSum(sq), Rat(Len(xs) - 1, 1))

\* std() * sqrt(periods_per_year), as the term sqrt(radicand).
AnnualizedStd(xs) == [radicand |-> RMul(Variance(xs), Rat(periods_per_year, 1))]

\* `x != 0` for a root term: sqrt(r) is 0 only for r = 0, and NaN != 0 is true.
RootNonZero(x) == RNonZero(x.radicand)

total_return(xs) == RSub(RProd([i \in 1 .. Len(xs) |-> RAdd(One, xs[i])]), One)

years(xs) == Rat(Len(xs), periods_per_year)

\* (1 + total_return) ** (1/years) - 1, as the term base^exp - 1.  numpy yields
\* NaN for a negative base with a fractional exponent.
annualized_return(xs) ==
    LET base == RAdd(One, total_return(xs))
        exp  == RDiv(One, years(xs))
    IN  IF RLt(Zero, years(xs))
        THEN [nan  |-> IsNaN(base) \/ (RLt(base, Zero) /\ exp[2] # 1),
              base |-> base, exp |-> exp]
        ELSE [nan |-> FALSE, base |-> One, exp |-> One]

\* Running products of a sequence.
RECURSIVE CumProd(_)
CumProd(s) ==
    IF s = <<>> THEN <<>>
    ELSE LET init == CumProd(SubSeq(s, 1, Len(s) - 1))
         IN  Append(init, IF init = <<>> THEN s[Len(s)]
                          ELSE RMul(init[Len(init)], s[Len(s)]))

\* Running maxima of a sequence.
RECURSIVE CumMax(_)
CumMax(s) ==
    IF s = <<>> THEN <<>>
    ELSE LET init == CumMax(SubSeq(s, 1, Len(s) - 1))
         IN  Append(init, IF init # <<>> /\ ~RLt(init[Len(init)], s[Len(s)])
                          THEN init[Len(init)] ELSE s[Len(s)])

\* Series.min(): NaN entries are skipped; NaN when nothing is left.
RECURSIVE RMinSkipNa(_)
RMinSkipNa(s) ==
    IF s = <<>> THEN NaN
    ELSE LET m == RMinSkipNa(SubSeq(s, 1, Len(s) - 1))
             x == s[Len(s)]
         IN  IF IsNaN(x) THEN m
             ELSE IF IsNaN(m) \/ RLt(x, m) THEN x ELSE m

\* cumulative = (1 + returns).cumprod()
cumulative(xs) == CumProd([i \in 1 .. Len(xs) |-> RAdd(One, xs[i])])

\* running_max = cumulative.expanding().max()
running_max(c) == CumMax(c)

\* drawdown = (cumulative - running_max) / running_max
drawdown(xs) ==
    LET c == cumulative(xs)
        m == running_max(c)
    IN  [t \in 1 .. Len(xs) |-> RDiv(RSub(c[t], m[t]), m[t])]

\* Variant: the fall below the peak is not divided by the peak.
max_drawdown_absolute(xs) ==
    LET c == cumulative(xs)
        m == running_max(c)
    IN  RMinSkipNa([t \in 1 .. Len(xs) |-> RSub(c[t], m[t])])

max_drawdown(xs) == RMinSkipNa(drawdown(xs))

negative_returns(xs) == SeqFilter(LAMBDA r : RLt(r, Zero), xs)

\* numerator / denominator as a term.  den is the denominator, or its radicand
\* when root is TRUE.  A NaN operand makes the quotient NaN.
Quotient(num, den, root) ==
    [kind |-> IF num.nan \/ IsNaN(den) THEN "nan" ELSE "quot",
     num  |-> num, den |-> den, root |-> root]

\* The literal 0.0 of the guards' else branch.
GuardZero(num, den, root) == [kind |-> "zero", num |-> num, den |-> den, root |-> root]

\* annualized_return / annualized_volatility if annualized_volatility != 0 else 0.0
sharpe_ratio(ar, vol) ==
    IF RootNonZero(vol) THEN Quotient(ar, vol.radicand, TRUE)
    ELSE GuardZero(ar, vol.radicand, TRUE)

\* annualized_return / downside_deviation if downside_deviation != 0 else 0.0
sortino_ratio(ar, dd) ==
    IF RootNonZero(dd) THEN Quotient(ar, dd.radicand, TRUE)
    ELSE GuardZero(ar, dd.radicand, TRUE)

\* annualized_return / abs(max_drawdown) if max_drawdown != 0 else 0.0
calmar_ratio(ar, mdd) ==
    IF RNonZero(mdd) THEN Quotient(ar, RAbs(mdd), FALSE)
    ELSE GuardZero(ar, RAbs(mdd), FALSE)

win_rate(xs) == Rat(Len(SeqFilter(LAMBDA r : RLt(Zero, r), xs)), Len(xs))

EmptyReport == <<>>

\* The report; the quantile, skewness and kurtosis entries are not modelled.
calculate_performance_metrics(series) ==
    LET xs  == series.values
        ar  == annualized_return(xs)
        vol == AnnualizedStd(xs)
        mdd == max_drawdown(xs)
        dd  == AnnualizedStd(negative_returns(xs))
    IN  IF Len(xs) = 0 THEN EmptyReport
        ELSE [total_return          |-> total_return(xs),
              annualized_return     |-> ar,
              annualized_volatility |-> vol,
              sharpe_ratio          |-> sharpe_ratio(ar, vol),
              sortino_ratio         |-> sortino_ratio(ar, dd),
              max_drawdown          |-> mdd,
              calmar_ratio          |-> calmar_ratio(ar, mdd),
              win_rate              |-> win_rate(xs),
              num_periods           |-> Len(xs),
              years_of_data         |-> years(xs)]

-----------------------------------------------------------------------------
(* Inputs.                                                                 *)

SeqsUpTo(S, n) == UNION {[1 .. k -> S] : k \in 0 .. n}

\* A price cell of the file: a positive price, or empty (read as NaN).
Cells == {NaN} \cup {Rat(p, 1) : p \in PriceValues}

Quotes == Cells \ {NaN}

\* Rows of a file: a date, a cell for AAA that may be empty, a quote for BBB.
FileRows == Dates \X Cells \X Quotes

\* Files with a Date column: rows in any order, dates possibly repeated.
DateFiles ==
    {[columns |-> <<"Date">> \o TableColumns, rows |-> r] :
        r \in SeqsUpTo(FileRows, MaxRows)}

\* Files whose date column carries another label.
NoDateFiles ==
    {[columns |-> <<"Day">> \o TableColumns, rows |-> r] : r \in SeqsUpTo(FileRows, 1)}

CsvFiles == DateFiles \cup NoDateFiles

\* Tables as load_price_data leaves them for a file with one row per date.
LoadedTables ==
    {[columns |-> TableColumns, index |-> [i \in 1 .. Len(d) |-> i], data |-> d] :
        d \in SeqsUpTo(Cells \X Cells, MaxRows) \ {<<>>}}

WeightMaps == UNION {[K -> WeightValues] : K \in SUBSET AssetIds}

Portfolios == UNION {[K -> PortfolioWeights] : K \in SUBSET AssetIds}

NoWeights == <<>>

\* Ticker lists handed to get_price_data: up to as many entries as the table
\* has columns, repetitions allowed.
TickerLists == SeqsUpTo(AssetIds, Len(TableColumns))

ReturnValues == {Rat(-2, 1), Rat(-1, 1), Rat(-1, 5), Zero, Rat(1, 20), Rat(1, 10), One}

ReturnSeries ==
    {[index |-> [i \in 1 .. Len(v) |-> i + 1], values |-> v] :
        v \in SeqsUpTo(ReturnValues, MaxPeriods) \ {<<>>}}

-----------------------------------------------------------------------------
(* The tools: backtest_portfolio and get_price_data.                       *)

Init ==
    /\ tool \in {"backtest_portfolio", "get_price_data"}
    /\ pc = "start"
    /\ csv \in CsvFiles
    /\ heap = <<>>
    /\ raw_price_data = 0
    /\ price_data = 0
    /\ portfolio \in (IF tool = "backtest_portfolio" THEN Portfolios ELSE {NoWeights})
    /\ tickers \in (IF tool = "get_price_data" THEN TickerLists ELSE {<<>>})
    /\ warnings = <<>>
    /\ portfolio_returns = NoSeries
    /\ performance_stats = EmptyReport
    /\ error = "none"

\* load_price_data on a file with a Date column.
LoadPriceData ==
    /\ pc = "start"
    /\ "Date" \in Range(csv.columns)
    /\ \E df \in load_price_data(csv) :
          /\ heap' = <<df>>
          /\ raw_price_data' = 1
    /\ pc' = "loaded"
    /\ UNCHANGED <<tool, csv, price_data, tickers, portfolio, warnings,
                   portfolio_returns, performance_stats, error>>

\* load_price_data on a file without one: ValueError, logged and raised again.
LoadPriceDataFails ==
    /\ pc = "start"
    /\ "Date" \notin Range(csv.columns)
    /\ error' = "ValueError"
    /\ pc' = "failed"
    /\ UNCHANGED <<tool, csv, heap, raw_price_data, price_data, tickers, portfolio,
                   warnings, portfolio_returns, performance_stats>>

\* The ticker list get_ticker_data is called with: the argument of
\* get_price_data, list(portfolio.keys()) in backtest_portfolio.
Requested == IF tool = "backtest_portfolio" THEN Keys(portfolio) ELSE tickers

LogMissing(df, tks) ==
    IF missing_tickers(df, tks) # <<>>
    THEN Append(warnings, missing_tickers(df, tks))
    ELSE warnings

GetTickerData ==
    /\ pc = "loaded"
    /\ available_tickers(heap[raw_price_data], Requested) # <<>>
    /\ LET got == get_ticker_data(heap, raw_price_data, Requested)
       IN  /\ heap' = got.heap
           /\ price_data' = got.ref
    /\ tickers' = Requested
    /\ warnings' = LogMissing(heap[raw_price_data], Requested)
    /\ pc' = IF tool = "backtest_portfolio" THEN "selected" ELSE "returned"
    /\ UNCHANGED <<tool, csv, raw_price_data, portfolio,
                   portfolio_returns, performance_stats, error>>

GetTickerDataFails ==
    /\ pc = "loaded"
    /\ available_tickers(heap[raw_price_data], Requested) = <<>>
    /\ tickers' = Requested
    /\ warnings' = LogMissing(heap[raw_price_data], Requested)
    /\ error' = "ValueError"
    /\ pc' = "failed"
    /\ UNCHANGED <<tool, csv, heap, raw_price_data, price_data, portfolio,
                   portfolio_returns, performance_stats>>

CalculatePortfolioReturns ==
    /\ pc = "selected"
    /\ ~RaisesZeroDivision(portfolio)
    /\ \E fill \in FillMethods :
          portfolio_returns' = calculate_portfolio_returns(heap[price_data], portfolio, fill)
    /\ pc' = "returns"
    /\ UNCHANGED <<tool, csv, heap, raw_price_data, price_data, tickers, portfolio,
                   warnings, performance_stats, error>>

CalculatePortfolioReturnsFails ==
    /\ pc = "selected"
    /\ RaisesZeroDivision(portfolio)
    /\ error' = "ZeroDivisionError"
    /\ pc' = "failed"
    /\ UNCHANGED <<tool, csv, heap, raw_price_data, price_data, tickers, portfolio,
                   warnings, portfolio_returns, performance_stats>>

CalculatePerformanceMetrics ==
    /\ pc = "returns"
    /\ performance_stats' = calculate_performance_metrics(portfolio_returns)
    /\ pc' = "done"
    /\ UNCHANGED <<tool, csv, heap, raw_price_data, price_data, tickers, portfolio,
                   warnings, portfolio_returns, error>>

\* The caller of get_price_data overwrites a cell of the table it was given:
\* it blanks a quote, or fills an empty cell.
CallerModifies ==
    /\ pc = "returned"
    /\ \E i \in 1 .. Len(heap[price_data].data) :
       \E j \in 1 .. Len(heap[price_data].columns) :
          heap' = [heap EXCEPT ![price_data].data[i][j] =
                                  IF IsNaN(@) THEN One ELSE NaN]
    /\ pc' = "modified"
    /\ UNCHANGED <<tool, csv, raw_price_data, price_data, tickers, portfolio, warnings, portfolio_returns, performance_stats, error>>

Next ==
    \/ LoadPriceData
    \/ LoadPriceDataFails
    \/ GetTickerData
    \/ GetTickerDataFails
    \/ CalculatePortfolioReturns
    \/ CalculatePortfolioReturnsFails
    \/ CalculatePerformanceMetrics
    \/ CallerModifies

Spec == Init /\ [][Next]_vars

-----------------------------------------------------------------------------
(* load_price_data called on its own.                                      *)

InitLoad ==
    /\ tool = "load_price_data"
    /\ pc = "start"
    /\ csv \in CsvFiles
    /\ heap = <<>>
    /\ raw_price_data = 0
    /\ price_data = 0
    /\ portfolio = NoWeights
    /\ tickers = <<>>
    /\ warnings = <<>>
    /\ portfolio_returns = NoSeries
    /\ performance_stats = EmptyReport
    /\ error = "none"

NextLoad == LoadPriceData \/ LoadPriceDataFails

SpecLoad == InitLoad /\ [][NextLoad]_vars

(* calculate_portfolio_returns called on its own, on any table and any     *)
(* weight map.                                                             *)

InitReturns ==
    /\ tool = "calculate_portfolio_returns"
    /\ pc = "selected"
    /\ csv = NoCsv
    /\ \E df \in LoadedTables : heap = <<df>>
    /\ raw_price_data = 0
    /\ price_data = 1
    /\ portfolio \in WeightMaps
    /\ tickers = <<>>
    /\ warnings = <<>>
    /\ portfolio_returns = NoSeries
    /\ performance_stats = EmptyReport
    /\ error = "none"

NextReturns == CalculatePortfolioReturns \/ CalculatePortfolioReturnsFails

SpecReturns == InitReturns /\ [][NextReturns]_vars

(* calculate_performance_metrics called on its own.                        *)

InitMetrics ==
    /\ tool = "calculate_performance_metrics"
    /\ pc = "returns"
    /\ csv = NoCsv
    /\ heap = <<>>
    /\ raw_price_data = 0
    /\ price_data = 0
    /\ portfolio = NoWeights
    /\ tickers = <<>>
    /\ warnings = <<>>
    /\ portfolio_returns \in ReturnSeries
    /\ performance_stats = EmptyReport
    /\ error = "none"

NextMetrics == CalculatePerformanceMetrics

SpecMetrics == InitMetrics /\ [][NextMetrics]_vars

-----------------------------------------------------------------------------
(* Properties.                                                             *)

Source == heap[raw_price_data]

Selected == heap[price_data]

IsStrictlyIncreasing(s) == \A i \in 1 .. Len(s) - 1 : s[i] < s[i + 1]

\* C1: after backtest_portfolio on a table with at least one row, the return
\* series has one entry for each date of the table but the first, in table
\* order, and the report's num_periods is that number.
\* (The report of an empty series is empty, so num_periods is looked up for
\* tables of two rows or more.)
C1_OneEntryPerDate ==
    (tool = "backtest_portfolio" /\ pc = "done" /\ Len(Source.index) >= 1) =>
        /\ portfolio_returns.index = Tail(Source.index)
        /\ Len(Source.index) >= 2 =>
              /\ "num_periods" \in DOMAIN performance_stats
              /\ performance_stats.num_periods = Len(Source.index) - 1

\* C2: calculate_portfolio_returns on a weight map whose values sum to 0, the
\* empty map included, ends in an error and returns no series.
C2_ZeroSumRejected ==
    (pc \in {"returns", "failed"} /\ total_weight(portfolio) = Zero) =>
        /\ pc = "failed"
        /\ error # "none"
        /\ portfolio_returns = NoSeries

Ratios == {"sharpe_ratio", "sortino_ratio", "calmar_ratio"}

DenominatorIsZero(x) == x.den = Zero

AllIdenticalNonZero(xs) == xs[1] # Zero /\ \A i \in 1 .. Len(xs) : xs[i] = xs[1]

\* C3: every ratio metric of a non-empty series is finite, and is the literal
\* 0.0 when its denominator is zero; identical non-zero returns give a
\* sharpe_ratio of 0.0.
C3_RatiosFinite ==
    pc = "done" =>
        /\ \A m \in Ratios :
              /\ performance_stats[m].kind # "nan"
              /\ DenominatorIsZero(performance_stats[m]) => performance_stats[m].kind = "zero"
        /\ AllIdenticalNonZero(portfolio_returns.values) =>
              performance_stats.sharpe_ratio.kind = "zero"

NoNegativeReturn(xs) == \A i \in 1 .. Len(xs) : ~RLt(xs[i], Zero)

\* C4: for a non-empty series without a negative return, sortino_ratio is 0.0.
C4_SortinoZeroWithoutLosses ==
    (pc = "done" /\ NoNegativeReturn(portfolio_returns.values)) =>
        performance_stats.sortino_ratio.kind = "zero"

Wanted == Range(tickers) \cap Range(Source.columns)

\* C5: get_ticker_data succeeds exactly when a requested id is a column of the
\* table; it then returns the requested columns that exist, all rows in their
\* order, and logs a warning naming the absent ids; otherwise it raises the
\* no-assets error and returns no table.
C5_Select ==
    (raw_price_data # 0 /\ pc \notin {"start", "loaded"}) =>
        IF Wanted = {}
        THEN pc = "failed" /\ error = "ValueError" /\ price_data = 0
        ELSE /\ price_data # 0
             /\ pc \in {"selected", "returned"} =>
                   /\ error = "none"
                   /\ Range(Selected.columns) = Wanted
                   /\ Selected.index = Source.index
                   /\ \A i \in 1 .. Len(Source.index) :
                      \A j \in 1 .. Len(Selected.columns) :
                         Selected.data[i][j] =
                            Source.data[i][IndexOf(Source.columns, Selected.columns[j])]
                   /\ (Range(tickers) \ Wanted # {}) =>
                         (Len(warnings) = 1 /\ Range(warnings[1]) = Range(tickers) \ Wanted)
                   /\ (Range(tickers) \ Wanted = {}) => warnings = <<>>

C5_Witness ==
    /\ pc = "returned"
    /\ tickers = <<"AAA", "ZZZ">>
    /\ Selected.columns = <<"AAA">>
    /\ warnings = << <<"ZZZ">> >>
    /\ Len(Source.index) = 2

\* C6: the table load_price_data returns has strictly increasing dates.
C6_StrictlyIncreasingDates ==
    pc = "loaded" => IsStrictlyIncreasing(Source.index)

\* Cumulative wealth and its running peak, from their definitions.
Wealth(xs, t) == RProd([s \in 1 .. t |-> RAdd(One, xs[s])])

Peak(xs, t) ==
    CHOOSE m \in {Wealth(xs, s) : s \in 1 .. t} :
        \A s \in 1 .. t : RLe(Wealth(xs, s), m)

Fall(xs, t) == RDiv(RSub(Wealth(xs, t), Peak(xs, t)), Peak(xs, t))

IsLeastFall(xs, d) ==
    /\ \E t \in 1 .. Len(xs) : d = Fall(xs, t)
    /\ \A t \in 1 .. Len(xs) : RLe(d, Fall(xs, t))

NeverFalls(xs) == \A t \in 1 .. Len(xs) : \A s \in 1 .. t : RLe(Wealth(xs, s), Wealth(xs, t))

DrawdownExample == <<Rat(1, 10), Rat(-1, 5), Rat(1, 20)>>

DrawdownLaw(xs, d) ==
    /\ IsLeastFall(xs, d)
    /\ RLe(d, Zero)
    /\ d = Zero <=> NeverFalls(xs)
    /\ xs = DrawdownExample => d = Rat(-1, 5)

\* C7 as stated: for every non-empty series max_drawdown is the least of
\* (C[t]-M[t])/M[t], is never positive, is 0 exactly when the wealth never falls
\* below an earlier value, and is -0.2 for [0.10, -0.20, 0.05].
C7_Drawdown ==
    pc = "done" => DrawdownLaw(portfolio_returns.values, performance_stats.max_drawdown)

\* C7 amended: the same, for every non-empty series whose first return is
\* greater than -1, so that the running peak of the wealth is positive.
C7_DrawdownPositivePeak ==
    (pc = "done" /\ RLt(Rat(-1, 1), portfolio_returns.values[1])) =>
        DrawdownLaw(portfolio_returns.values, performance_stats.max_drawdown)

C7_Witness ==
    /\ pc = "done"
    /\ portfolio_returns.values = DrawdownExample
    /\ performance_stats.max_drawdown = Rat(-1, 5)

Scaled(weights, k) == [a \in DOMAIN weights |-> k * weights[a]]

WeightSum(nw) == RSum([i \in 1 .. Len(Keys(nw)) |-> nw[Keys(nw)[i]]])

\* C8: for a weight map with positive sum the normalized weights sum to 1, and
\* the series returned is the one returned for the weights scaled by any
\* positive factor.
C8_ScaleInvariant ==
    (pc \in {"returns", "failed"} /\ RLt(Zero, total_weight(portfolio))) =>
        /\ pc = "returns"
        /\ WeightSum(normalized_weights(portfolio)) = One
        /\ \E fill \in FillMethods :
              /\ portfolio_returns = calculate_portfolio_returns(Selected, portfolio, fill)
              /\ \A k \in 2 .. MaxScale :
                    /\ ~RaisesZeroDivision(Scaled(portfolio, k))
                    /\ portfolio_returns =
                          calculate_portfolio_returns(Selected, Scaled(portfolio, k), fill)

C8_Witness ==
    /\ pc = "returns"
    /\ portfolio = [a \in {"AAA", "BBB"} |-> IF a = "AAA" THEN 2 ELSE -1]
    /\ Len(portfolio_returns.values) = 1
    /\ portfolio_returns.values[1] # Zero

\* C9: once the source table is loaded no step changes it, and the table
\* get_ticker_data returns is another object than the source.
C9_SourceUnchanged ==
    [][/\ raw_price_data # 0 =>
            (raw_price_data' = raw_price_data /\ heap'[raw_price_data] = heap[raw_price_data])
       /\ price_data' # 0 => price_data' # raw_price_data']_vars

C9_Witness ==
    /\ pc = "modified"
    /\ Selected.columns = Source.columns
    /\ Selected # Source

Held == DOMAIN portfolio \cap Range(Selected.columns)

Price(a, t) == Selected.data[t][IndexOf(Selected.columns, a)]

Priced(t) == \A a \in Held : ~IsNaN(Price(a, t)) /\ ~IsNaN(Price(a, t - 1))

\* weight / (sum of all weights) * (price[t]/price[t-1] - 1), or 0 for an asset
\* that the map or the table lacks.
Share(a, t) ==
    IF a \in Held
    THEN RMul(RDiv(Rat(portfolio[a], 1), total_weight(portfolio)),
              RSub(RDiv(Price(a, t), Price(a, t - 1)), One))
    ELSE Zero

\* C10: with a non-zero weight sum and a weight on an asset the table lacks,
\* calculate_portfolio_returns returns a series, and at each of its dates for
\* which the held assets have a price then and the date before, the value is the
\* sum over the assets both in the map and in the table of weight / (sum of all
\* weights) times price[t]/price[t-1] - 1.
C10_AbsentAssetsCountZero ==
    (/\ pc \in {"returns", "failed"}
     /\ total_weight(portfolio) # Zero
     /\ DOMAIN portfolio \ Range(Selected.columns) # {}) =>
        /\ pc = "returns"
        /\ \A i \in 1 .. Len(portfolio_returns.index) :
              LET t == IndexOf(Selected.index, portfolio_returns.index[i])
              IN  Priced(t) =>
                     portfolio_returns.values[i] =
                        RAdd(Share("AAA", t), RAdd(Share("BBB", t), Share("ZZZ", t)))

C10_Witness ==
    /\ pc = "returns"
    /\ portfolio = [a \in {"AAA", "ZZZ"} |-> 2]
    /\ portfolio_returns.values = <<Rat(-1, 4)>>

====
